---- MODULE Spec2Model ----
(***************************************************************************)
(* Model of nodo_central.py: the ROS 2 node NodoCentral that buffers the   *)
(* JSON sensor readings of each device (listener_callback) and, on a 60 s  *)
(* timer, posts the per-device medians when the wall-clock minute is 0 or  *)
(* 30 (publicar_datos).                                                    *)
(*                                                                         *)
(* Numbers are fixed-point integers counting 1/10000 of a unit, so that    *)
(* the mean of two readings given with three decimals is exact.            *)
(***************************************************************************)
EXTENDS Integers, Sequences, FiniteSets, TLC

\* --------------------------------------------------------------- bounds
\* Messages delivered to the subscription in one behaviour of Spec.
MaxMsgs == 3
\* Messages delivered in one behaviour of SpecReloj.
MaxMsgsReloj == 1
\* Clock hours covered by SpecReloj.
MaxHoras == 1
\* Largest latency, in seconds, between a timer tick becoming due and the
\* executor running publicar_datos.
MaxRetraso == 1

\* ---------------------------------------------------------- JSON values
\* What json.loads yields for one value; "ausente" marks a key the object
\* does not have.  "bigint" is an integer literal beyond the float range
\* (Python keeps it as an int of arbitrary size).
JStr(s) == [t |-> "str", s |-> s, n |-> 0]
JNum(n) == [t |-> "num", s |-> "", n |-> n]
JBool(b) == [t |-> "bool", s |-> "", n |-> IF b THEN 1 ELSE 0]
JNull == [t |-> "null", s |-> "", n |-> 0]
JLista == [t |-> "lista", s |-> "", n |-> 1]
JBigInt == [t |-> "bigint", s |-> "", n |-> 0]
Ausente == [t |-> "ausente", s |-> "", n |-> 0]

\* One unit (1.0) in the fixed-point representation: hundredths, each
\* divided in a hundred.
Unidad == 100 * 100

\* The record's keys the node reads.
CamposNumericos == {"temperatura", "ph", "turbidez", "oxigeno", "luz"}

\* A parsed JSON object: one value, or Ausente, per key.
Reg(id, dom, te, ph, tu, ox, lu) ==
    [n |-> 0, id_dispositivo |-> id, dominio |-> dom, temperatura |-> te,
     ph |-> ph, turbidez |-> tu, oxigeno |-> ox, luz |-> lu]

RegVacio == Reg(Ausente, Ausente, Ausente, Ausente, Ausente, Ausente, Ausente)

\* campo in d
Tiene(d, campo) == d[campo].t # "ausente"

\* d.get(campo): None when the key is missing
Get(d, campo) == IF Tiene(d, campo) THEN d[campo] ELSE JNull

\* d.get(campo, defecto)
GetDef(d, campo, defecto) == IF Tiene(d, campo) THEN d[campo] ELSE defecto

\* Python truth value of a JSON value (if id_disp:)
Verdadero(v) ==
    CASE v.t = "str" -> v.s # ""
      [] v.t = "num" -> v.n # 0
      [] v.t = "bool" -> v.n = 1
      [] v.t = "lista" -> v.n > 0
      [] v.t = "bigint" -> TRUE
      [] OTHER -> FALSE

\* Whether the value can be a dict key; a list cannot (TypeError).
Hashable(v) == v.t # "lista"

\* isinstance(value, (int, float)); bool is a subclass of int
EsNumero(v) == v.t \in {"num", "bool", "bigint"}

\* The number a numeric value stands for, in fixed point.  A bigint sorts
\* above every float-range number.
Valor(v) ==
    CASE v.t = "num" -> v.n
      [] v.t = "bool" -> v.n * Unidad
      [] OTHER -> 2000000000

\* --------------------------------------------------------- formato_seguro
\* f"{value:.2f}" for a number, "N/A" otherwise.  Only whether it formats
\* matters to the node's state: formatting an int beyond the float range
\* raises OverflowError.
formato_seguro(value) ==
    IF EsNumero(value)
    THEN IF value.t = "bigint" THEN "OverflowError" ELSE "2f"
    ELSE "N/A"

\* ------------------------------------------------------- calcular_mediana
RECURSIVE Insertar(_, _)
Insertar(s, v) ==
    IF s = <<>> THEN <<v>>
    ELSE IF Valor(v) <= Valor(Head(s)) THEN <<v>> \o s
    ELSE <<Head(s)>> \o Insertar(Tail(s), v)

\* sorted(valores)
RECURSIVE sorted(_)
sorted(s) == IF s = <<>> THEN <<>> ELSE Insertar(sorted(Tail(s)), Head(s))

\* [d[campo] for d in buffer if campo in d and isinstance(d[campo], (int, float))]
RECURSIVE Valores(_, _)
Valores(buffer, campo) ==
    IF buffer = <<>> THEN <<>>
    ELSE LET d == Head(buffer)
             resto == Valores(Tail(buffer), campo)
         IN IF Tiene(d, campo) /\ EsNumero(d[campo])
            THEN <<d[campo]>> \o resto ELSE resto

\* statistics.median(data): the middle element, or the mean of the two
\* middle elements; the true division of an int beyond the float range
\* raises OverflowError.
median(data) ==
    LET n == Len(data)
    IN IF n % 2 = 1 THEN data[(n \div 2) + 1]
       ELSE LET a == data[n \div 2]
                b == data[(n \div 2) + 1]
            IN IF a.t = "bigint" \/ b.t = "bigint"
               THEN [t |-> "OverflowError", s |-> "", n |-> 0]
               ELSE JNum((Valor(a) + Valor(b)) \div 2)

\* The whole body is in try/except Exception: any error yields None.
calcular_mediana(buffer, campo) ==
    LET valores == Valores(buffer, campo)
    IN IF valores = <<>> THEN JNull
       ELSE LET m == median(sorted(valores))
            IN IF m.t = "OverflowError" THEN JNull ELSE m

\* --------------------------------------------------------------- redondear
\* round(x, 2) on the fixed-point number x: to the nearest 1/100, a tie
\* going to the even hundredth.
Round2(x) ==
    LET paso == Unidad \div 100
        q == x \div paso
        r == x % paso
    IN IF 2 * r < paso THEN q * paso
       ELSE IF 2 * r > paso THEN (q + 1) * paso
       ELSE IF q % 2 = 0 THEN q * paso ELSE (q + 1) * paso

\* round(valor, 2) if isinstance(valor, (int, float)) else None.  Rounding
\* an int to 2 digits returns the int itself (a bool becomes the int 0 or 1).
redondear(valor) ==
    IF EsNumero(valor)
    THEN CASE valor.t = "num" -> JNum(Round2(valor.n))
           [] valor.t = "bool" -> JNum(valor.n * Unidad)
           [] OTHER -> valor
    ELSE JNull

\* ------------------------------------------------------------ the state
VARIABLES
    buffers_por_dispositivo, \* the dict, as its entries [id, buffer] in insertion order
    spin,          \* TRUE while rclpy.spin(nodo) is running its callbacks
    recibidos,     \* messages delivered to the subscription so far
    ultimo,        \* what the last callback did: its input, its posts, its exception
    despachados,   \* the records of the summaries posted so far: arrival number, device, outcome
    reloj,         \* SpecReloj: the instant, in seconds, at which the next timer tick is due
    flushes,       \* SpecReloj: the wall-clock instants at which a flush fired
    pc,            \* SpecPasos: where the executor is: idle, or in the for loop of a flush
    cola           \* SpecPasos: the messages the subscription holds for the executor

vars == <<buffers_por_dispositivo, spin, recibidos, ultimo, despachados, reloj, flushes,
          pc, cola>>

\* The executor of rclpy.spin between two callbacks.
Reposo == [op |-> "idle", i |-> 0, pendiente |-> FALSE]

\* ------------------------------------------------------------- the dict
\* The keys of the dict.
Claves(bufs) == {bufs[i].id : i \in 1..Len(bufs)}

\* bufs[id] for a key of the dict, the empty list otherwise.
BufferDe(bufs, id) ==
    IF id \in Claves(bufs)
    THEN (CHOOSE e \in {bufs[i] : i \in 1..Len(bufs)} : e.id = id).buffer
    ELSE <<>>

\* AppendA with one list shared by every key: the record lands in all buffers.
AppendATodos(bufs, id, data) ==
    IF id \in Claves(bufs)
    THEN [i \in 1..Len(bufs) |->
            [id |-> bufs[i].id, buffer |-> Append(bufs[i].buffer, data)]]
    ELSE Append([i \in 1..Len(bufs) |->
                    [id |-> bufs[i].id, buffer |-> Append(bufs[i].buffer, data)]],
                [id |-> id, buffer |-> <<data>>])

\* AppendA assigning a new one-element list instead of appending.
AppendAReemplaza(bufs, id, data) ==
    IF id \in Claves(bufs)
    THEN [i \in 1..Len(bufs) |->
            IF bufs[i].id = id THEN [id |-> id, buffer |-> <<data>>] ELSE bufs[i]]
    ELSE Append(bufs, [id |-> id, buffer |-> <<data>>])

\* AppendA that inserts the record at the head of the list.
AppendAlPrincipio(bufs, id, data) ==
    IF id \in Claves(bufs)
    THEN [i \in 1..Len(bufs) |->
            IF bufs[i].id = id
            THEN [id |-> id, buffer |-> <<data>> \o bufs[i].buffer]
            ELSE bufs[i]]
    ELSE Append(bufs, [id |-> id, buffer |-> <<data>>])

\* defaultdict(list): bufs[id].append(data) creates the key when it is new.
AppendA(bufs, id, data) ==
    IF id \in Claves(bufs)
    THEN [i \in 1..Len(bufs) |->
            IF bufs[i].id = id
            THEN [id |-> id, buffer |-> Append(bufs[i].buffer, data)]
            ELSE bufs[i]]
    ELSE Append(bufs, [id |-> id, buffer |-> <<data>>])

\* bufs[id] = nuevo, for a key of the dict
Asignar(bufs, id, nuevo) ==
    [i \in 1..Len(bufs) |->
        IF bufs[i].id = id THEN [id |-> id, buffer |-> nuevo] ELSE bufs[i]]

\* ------------------------------------------------------------- messages
\* msg.data as json.loads sees it: text that is no JSON, a JSON value that
\* is no object, or an object.
MsgTexto == [kind |-> "texto", data |-> RegVacio]
MsgLista == [kind |-> "lista", data |-> RegVacio]
MsgObjeto(d) == [kind |-> "objeto", data |-> d]
NoMsg == [kind |-> "ninguno", data |-> RegVacio]

D1 == JStr("D1")
D2 == JStr("D2")
Dispositivos == {D1, D2}

MensajesValidos ==
    { MsgObjeto(Reg(D1, JStr("lab1"), JNum(201000), Ausente, Ausente, Ausente, Ausente)),
      MsgObjeto(Reg(D1, Ausente, JNum(223000), JNum(74200), Ausente, Ausente, Ausente)),
      MsgObjeto(Reg(D1, JStr("lab1"), JBigInt, Ausente, Ausente, Ausente, Ausente)),
      MsgObjeto(Reg(D2, JStr("lab2"), JNum(210000), JNum(70000), JNum(55000),
                    JNum(81000), JNum(3000000))),
      MsgObjeto(Reg(D2, JNull, JStr("n/d"), JBool(TRUE), Ausente, Ausente, JNull)) }

MensajesInvalidos ==
    { MsgTexto,
      MsgLista,
      MsgObjeto(Reg(Ausente, JStr("lab1"), JNum(201000), Ausente, Ausente, Ausente, Ausente)),
      MsgObjeto(Reg(JStr(""), JStr("lab1"), JNum(201000), Ausente, Ausente, Ausente, Ausente)),
      MsgObjeto(Reg(JLista, JStr("lab1"), JNum(201000), Ausente, Ausente, Ausente, Ausente)) }

Mensajes == MensajesValidos \cup MensajesInvalidos

\* ---------------------------------------------------- listener_callback
\* except json.JSONDecodeError / except Exception: every exception of the
\* body is handled in the callback.
Excepciones ==
    {"JSONDecodeError", "AttributeError", "TypeError", "OverflowError", "IndexError"}

\* Capturada without the except Exception clause.
CapturadaSoloJSON(exc) == exc = "JSONDecodeError"

Capturada(exc) == exc = "JSONDecodeError" \/ exc \in Excepciones

\* The callback on msg, the k-th message delivered: the dict afterwards and
\* the exception that leaves the callback ("none" when it returns).
listener_callback(bufs, msg, k) ==
    LET data == msg.data
        id_disp == Get(data, "id_dispositivo")
        guarda == msg.kind = "objeto" /\ Verdadero(id_disp) /\ Hashable(id_disp)
        lanzada ==
            IF msg.kind = "texto" THEN "JSONDecodeError"
            ELSE IF msg.kind # "objeto" THEN "AttributeError"
            ELSE IF ~Verdadero(id_disp) THEN "none"
            ELSE IF ~Hashable(id_disp) THEN "TypeError"
            ELSE IF \E c \in {"temperatura", "luz", "ph", "turbidez", "oxigeno"} :
                        formato_seguro(Get(data, c)) = "OverflowError"
                 THEN "OverflowError"
            ELSE "none"
    IN [buffers |-> IF guarda THEN AppendA(bufs, id_disp, [data EXCEPT !.n = k])
                    ELSE bufs,
        excepcion |-> IF Capturada(lanzada) THEN "none" ELSE lanzada]

\* -------------------------------------------------------- publicar_datos
\* What requests.post does: a response with a status code, or a
\* requests.RequestException (a timeout, a connection error).
Respuestas ==
    { [tipo |-> "respuesta", codigo |-> 201],
      [tipo |-> "respuesta", codigo |-> 500],
      [tipo |-> "Timeout", codigo |-> 0] }

\* The subclasses of requests.RequestException.
RequestException == {"Timeout", "ConnectionError"}

\* The try/except around requests.post: status 201 is the success, any other
\* status a rejection, a RequestException an unreachable sink.
Clasificar(resp) ==
    IF resp.tipo = "respuesta"
    THEN IF resp.codigo = 201
         THEN [resultado |-> "Delivered", codigo |-> resp.codigo]
         ELSE [resultado |-> "Rejected", codigo |-> resp.codigo]
    ELSE IF resp.tipo \in RequestException
         THEN [resultado |-> "Unreachable", codigo |-> 0]
         ELSE [resultado |-> resp.tipo, codigo |-> 0]

\* EsMomento firing every quarter of an hour.
EsMomentoCuartos(minuto) == minuto % 15 = 0

\* minuto in [0, 30]
EsMomento(minuto) == minuto \in {0, 30}

\* Omitir without the test: no buffer is skipped.
OmitirNunca(buffer) == FALSE

\* if not buffer: continue
Omitir(buffer) == buffer = <<>>

\* The domain of the last record of the buffer that carries one, the
\* sentinel when no record does.
RECURSIVE UltimoConDominio(_)
UltimoConDominio(buffer) ==
    IF buffer = <<>> THEN JStr("desconocido")
    ELSE IF Tiene(buffer[Len(buffer)], "dominio") THEN buffer[Len(buffer)].dominio
    ELSE UltimoConDominio(SubSeq(buffer, 1, Len(buffer) - 1))

\* Resumen with the domain searched backwards through the buffer.
ResumenUltimoConDominio(id_disp, buffer) ==
    [n |-> 0,
     id_dispositivo |-> id_disp,
     dominio |-> UltimoConDominio(buffer),
     temperatura |-> redondear(calcular_mediana(buffer, "temperatura")),
     ph |-> redondear(calcular_mediana(buffer, "ph")),
     turbidez |-> redondear(calcular_mediana(buffer, "turbidez")),
     oxigeno |-> redondear(calcular_mediana(buffer, "oxigeno")),
     luz |-> redondear(calcular_mediana(buffer, "luz"))]

\* datos_filtrados
Resumen(id_disp, buffer) ==
    [n |-> 0,
     id_dispositivo |-> id_disp,
     dominio |-> GetDef(buffer[Len(buffer)], "dominio", JStr("desconocido")),
     temperatura |-> redondear(calcular_mediana(buffer, "temperatura")),
     ph |-> redondear(calcular_mediana(buffer, "ph")),
     turbidez |-> redondear(calcular_mediana(buffer, "turbidez")),
     oxigeno |-> redondear(calcular_mediana(buffer, "oxigeno")),
     luz |-> redondear(calcular_mediana(buffer, "luz"))]

\* The log line after the post formats the five medians.
LogFalla(datos) ==
    \E c \in CamposNumericos : formato_seguro(datos[c]) = "OverflowError"

\* Limpiar keeping the records whose post did not succeed (a retry).
LimpiarSiEntregado(bufs, id_disp, resultado) ==
    IF resultado = "Delivered" THEN Asignar(bufs, id_disp, <<>>) ELSE bufs

\* The buffer of a device after its post: the dict entry is replaced by [].
Limpiar(bufs, id_disp, resultado) == Asignar(bufs, id_disp, <<>>)

\* The body of the for loop over self.buffers_por_dispositivo.items() for
\* entry i, when requests.post answers r.  est is the dict, the posts made so
\* far and the exception that ended the loop, if any.
Iteracion(i, est, r) ==
    LET id_disp == est.buffers[i].id
        buffer == est.buffers[i].buffer
    IN IF Omitir(buffer) THEN est
       ELSE IF buffer = <<>>
       THEN [est EXCEPT !.excepcion = "IndexError"]
       ELSE LET datos_filtrados == Resumen(id_disp, buffer)
                res == Clasificar(r)
                intento == [id |-> id_disp, datos |-> datos_filtrados,
                            respuesta |-> r,
                            resultado |-> res.resultado, codigo |-> res.codigo,
                            buffer |-> buffer,
                            fuente |-> {buffer[j].n : j \in 1..Len(buffer)}]
                enviados == Append(est.intentos, intento)
            IN IF res.resultado \notin {"Delivered", "Rejected", "Unreachable"}
               THEN [est EXCEPT !.intentos = enviados, !.excepcion = res.resultado]
               ELSE IF LogFalla(datos_filtrados)
               THEN [est EXCEPT !.intentos = enviados, !.excepcion = "OverflowError"]
               ELSE [est EXCEPT !.intentos = enviados,
                                !.buffers = Limpiar(est.buffers, id_disp, res.resultado)]

\* The for loop from entry i on: it ends with the dict or with an exception.
RECURSIVE Ciclo(_, _, _)
Ciclo(i, est, resp) ==
    IF i > Len(est.buffers) \/ est.excepcion # "none" THEN est
    ELSE Ciclo(i + 1, Iteracion(i, est, resp[est.buffers[i].id]), resp)

\* The timer callback when datetime.now().minute is minuto and requests.post
\* answers resp[d] for device d.
publicar_datos(bufs, minuto, resp) ==
    LET inicio == [buffers |-> bufs, intentos |-> <<>>, excepcion |-> "none"]
    IN IF EsMomento(minuto)
       THEN [flush |-> TRUE] @@ Ciclo(1, inicio, resp)
       ELSE [flush |-> FALSE] @@ inicio

\* ---------------------------------------------------------------- actions
Minutos == {0, 15, 30}

Init ==
    /\ buffers_por_dispositivo = <<>>
    /\ spin = TRUE
    /\ recibidos = 0
    /\ ultimo = [op |-> "init", msg |-> NoMsg, minuto |-> 0, flush |-> FALSE,
                 intentos |-> <<>>, excepcion |-> "none"]
    /\ despachados = {}
    /\ reloj = 0
    /\ flushes = <<>>
    /\ pc = Reposo
    /\ cola = <<>>

\* The executor runs listener_callback on the next message of the topic.
Recibir(msg) ==
    LET r == listener_callback(buffers_por_dispositivo, msg, recibidos + 1)
    IN /\ buffers_por_dispositivo' = r.buffers
       /\ recibidos' = recibidos + 1
       /\ spin' = (r.excepcion = "none")
       /\ ultimo' = [op |-> "ingest", msg |-> msg, minuto |-> 0, flush |-> FALSE,
                     intentos |-> <<>>, excepcion |-> r.excepcion]
       /\ UNCHANGED despachados

\* The executor runs publicar_datos; an exception that leaves the callback
\* leaves rclpy.spin and main.
Publicar(minuto, resp) ==
    LET r == publicar_datos(buffers_por_dispositivo, minuto, resp)
    IN /\ buffers_por_dispositivo' = r.buffers
       /\ spin' = (r.excepcion = "none")
       /\ ultimo' = [op |-> "tick", msg |-> NoMsg, minuto |-> minuto, flush |-> r.flush,
                     intentos |-> r.intentos, excepcion |-> r.excepcion]
       /\ despachados' = despachados \cup
             UNION { {[n |-> k, id |-> r.intentos[j].id,
                       resultado |-> r.intentos[j].resultado] : k \in r.intentos[j].fuente}
                     : j \in 1..Len(r.intentos) }
       /\ UNCHANGED recibidos

Ingest ==
    /\ spin
    /\ recibidos < MaxMsgs
    /\ \E msg \in Mensajes : Recibir(msg)
    /\ UNCHANGED <<reloj, flushes, pc, cola>>

\* The answer to a post that is never made does not matter: one is fixed
\* for the devices without records.
Tick ==
    /\ spin
    /\ \E minuto \in Minutos, resp \in [Dispositivos -> Respuestas] :
          /\ \A d \in Dispositivos :
                BufferDe(buffers_por_dispositivo, d) = <<>> => resp[d].codigo = 201
          /\ Publicar(minuto, resp)
    /\ UNCHANGED <<reloj, flushes, pc, cola>>

Next == Ingest \/ Tick

Spec == Init /\ [][Next]_vars

\* ------------------------------------------------- the timer and the clock
\* self.create_timer(60.0, self.publicar_datos): the period, in seconds.
Periodo == 60

\* The second of minute 0 of the first hour at which the node starts; the
\* first tick is due one period later, the next ones a period apart.
Fases == {0, 30, 59}

\* datetime.now().minute at the instant t, in seconds since the top of the
\* first hour.
MinutoLeido(t) == (t \div 60) % 60

InitReloj ==
    /\ buffers_por_dispositivo = <<>>
    /\ spin = TRUE
    /\ recibidos = 0
    /\ ultimo = [op |-> "init", msg |-> NoMsg, minuto |-> 0, flush |-> FALSE,
                 intentos |-> <<>>, excepcion |-> "none"]
    /\ despachados = {}
    /\ reloj \in {f + Periodo : f \in Fases}
    /\ flushes = <<>>
    /\ pc = Reposo
    /\ cola = <<>>

IngestReloj ==
    /\ spin
    /\ recibidos < MaxMsgsReloj
    /\ \E msg \in Mensajes : Recibir(msg)
    /\ UNCHANGED <<reloj, flushes, pc, cola>>

\* The tick due at reloj runs retraso seconds late (the executor was busy
\* with another callback) and reads the wall clock then.
TickReloj ==
    /\ spin
    /\ reloj < (MaxHoras * 3600) + (2 * Periodo)
    /\ \E retraso \in 0..MaxRetraso, resp \in [Dispositivos -> Respuestas] :
          LET instante == reloj + retraso
              minuto == MinutoLeido(instante)
          IN /\ \A d \in Dispositivos :
                   BufferDe(buffers_por_dispositivo, d) = <<>> => resp[d].codigo = 201
             /\ Publicar(minuto, resp)
             /\ flushes' = IF ultimo'.flush THEN Append(flushes, instante) ELSE flushes
    /\ reloj' = reloj + Periodo
    /\ UNCHANGED <<pc, cola>>

NextReloj == IngestReloj \/ TickReloj

SpecReloj == InitReloj /\ [][NextReloj]_vars

\* ----------------------------------------------------- the reducer alone
\* Longest buffer SpecReducer starts from.
MaxBuf == 3

\* Records of device D1 as listener_callback stores them.
RegistrosD1 ==
    { Reg(D1, JStr("lab1"), JNum(201000), Ausente, Ausente, Ausente, Ausente),
      Reg(D1, Ausente, JNum(223000), JNum(74200), Ausente, Ausente, Ausente),
      Reg(D1, JStr("lab1"), JNum(210000), Ausente, Ausente, Ausente, Ausente),
      Reg(D1, JStr("lab2"), JStr("n/d"), Ausente, Ausente, Ausente, JNull),
      Reg(D1, JNull, JBool(TRUE), Ausente, Ausente, Ausente, Ausente),
      Reg(D1, JStr("lab1"), JBigInt, Ausente, Ausente, Ausente, Ausente),
      Reg(D1, Ausente, JBool(FALSE), JNum(74230), Ausente, Ausente, Ausente) }

\* The buffer listener_callback builds from the records b, in this order.
Sellar(b) == [j \in 1..Len(b) |-> [b[j] EXCEPT !.n = j]]

\* The node has received the records of one buffer of D1 and nothing else.
InitReducer ==
    /\ \E k \in 1..MaxBuf : \E b \in [1..k -> RegistrosD1] :
          /\ buffers_por_dispositivo = <<[id |-> D1, buffer |-> Sellar(b)]>>
          /\ recibidos = k
    /\ spin = TRUE
    /\ ultimo = [op |-> "init", msg |-> NoMsg, minuto |-> 0, flush |-> FALSE,
                 intentos |-> <<>>, excepcion |-> "none"]
    /\ despachados = {}
    /\ reloj = 0
    /\ flushes = <<>>
    /\ pc = Reposo
    /\ cola = <<>>

SpecReducer == InitReducer /\ [][Tick]_vars

\* -------------------------------------------------------- the executor
\* SpecPasos follows the executor of rclpy.spin(nodo) callback by callback
\* and, inside publicar_datos, iteration by iteration of the for loop, with
\* the messages of the topic arriving at any moment.
MaxMsgsPasos == 2

\* requests.post may also raise an exception that is no RequestException.
RespuestasPasos == Respuestas \cup {[tipo |-> "Exception", codigo |-> 0]}

\* Libre for an executor that runs callbacks in parallel threads.
LibreSiempre(p) == TRUE

\* rclpy.spin(nodo) spins the single-threaded executor: it takes the next
\* callback when the one before has returned.
Libre(p) == p.op = "idle"

\* A message of the topic reaches the subscription, whatever the executor
\* is doing, and waits there (the queue keeps up to 10 of them).
Llegar ==
    /\ spin
    /\ recibidos + Len(cola) < MaxMsgsPasos
    /\ \E msg \in Mensajes : cola' = Append(cola, msg)
    /\ UNCHANGED <<buffers_por_dispositivo, spin, recibidos, ultimo, despachados,
                   reloj, flushes, pc>>

\* The executor runs listener_callback on the oldest waiting message.
Atender ==
    /\ spin
    /\ Libre(pc)
    /\ cola # <<>>
    /\ Recibir(Head(cola))
    /\ cola' = Tail(cola)
    /\ UNCHANGED <<reloj, flushes, pc>>

\* The executor runs publicar_datos: it reads the minute and, at minute 0
\* or 30, enters the for loop.
Iniciar ==
    /\ spin
    /\ Libre(pc)
    /\ \E minuto \in Minutos :
          /\ ultimo' = [op |-> "tick", msg |-> NoMsg, minuto |-> minuto,
                        flush |-> EsMomento(minuto), intentos |-> <<>>,
                        excepcion |-> "none"]
          /\ pc' = IF EsMomento(minuto)
                   THEN [op |-> "flush", i |-> 1, pendiente |-> FALSE]
                   ELSE Reposo
    /\ UNCHANGED <<buffers_por_dispositivo, spin, recibidos, despachados,
                   reloj, flushes, cola>>

\* The for loop takes entry pc.i: past the last entry publicar_datos returns,
\* an empty buffer is skipped, for any other the summary is computed and
\* requests.post is called, which blocks until the sink answers or 5 s pass.
Avanzar ==
    /\ spin
    /\ pc.op = "flush"
    /\ ~pc.pendiente
    /\ pc' = IF pc.i > Len(buffers_por_dispositivo) THEN Reposo
             ELSE IF Omitir(buffers_por_dispositivo[pc.i].buffer)
             THEN [pc EXCEPT !.i = @ + 1]
             ELSE [pc EXCEPT !.pendiente = TRUE]
    /\ UNCHANGED <<buffers_por_dispositivo, spin, recibidos, ultimo, despachados,
                   reloj, flushes, cola>>

\* requests.post returns or raises: the outcome is logged, the values are
\* logged, the buffer is replaced, and the loop goes to the next entry; an
\* exception that is not caught leaves publicar_datos, rclpy.spin and main.
Responder ==
    /\ spin
    /\ pc.op = "flush"
    /\ pc.pendiente
    /\ \E r \in RespuestasPasos :
          LET est == Iteracion(pc.i,
                               [buffers |-> buffers_por_dispositivo,
                                intentos |-> ultimo.intentos,
                                excepcion |-> "none"], r)
              nuevos == (Len(ultimo.intentos) + 1)..Len(est.intentos)
          IN /\ buffers_por_dispositivo' = est.buffers
             /\ ultimo' = [ultimo EXCEPT !.intentos = est.intentos,
                                         !.excepcion = est.excepcion]
             /\ despachados' = despachados \cup
                   UNION { {[n |-> k, id |-> est.intentos[j].id,
                             resultado |-> est.intentos[j].resultado]
                            : k \in est.intentos[j].fuente} : j \in nuevos }
             /\ spin' = (est.excepcion = "none")
             /\ pc' = IF est.excepcion = "none"
                      THEN [pc EXCEPT !.i = @ + 1, !.pendiente = FALSE]
                      ELSE pc
    /\ UNCHANGED <<recibidos, reloj, flushes, cola>>

NextPasos == Llegar \/ Atender \/ Iniciar \/ Avanzar \/ Responder

SpecPasos == Init /\ [][NextPasos]_vars

\* The for loop goes on and requests.post, with its timeout, comes back.
SpecPasosJusto == SpecPasos /\ WF_vars(Avanzar) /\ WF_vars(Responder)


\* ================================================================ claims
\* The records held in all the buffers.
Almacenados ==
    UNION { {buffers_por_dispositivo[i].buffer[j] :
                j \in 1..Len(buffers_por_dispositivo[i].buffer)}
            : i \in 1..Len(buffers_por_dispositivo) }

\* The devices with a record in their buffer.
ConDatos(bufs) == {id \in Claves(bufs) : BufferDe(bufs, id) # <<>>}

\* The devices a tick posted a summary for.
Intentados(u) == {u.intentos[j].id : j \in 1..Len(u.intentos)}

\* The last callback was a timer tick that flushed and returned.
FlushCompleto ==
    ultimo.op = "tick" /\ ultimo.flush /\ ultimo.excepcion = "none"

\* C1: after a flush cycle (a tick at minute 0 or 30) that completes, every
\* buffer of the dict is empty, whatever the outcome of each post was.
C1_PostFlushEmpty ==
    FlushCompleto =>
        \A i \in 1..Len(buffers_por_dispositivo) :
            buffers_por_dispositivo[i].buffer = <<>>

\* A completed flush over two devices, one post rejected and one unreachable.
C1_Witness ==
    /\ FlushCompleto
    /\ Len(buffers_por_dispositivo) = 2
    /\ \E j \in 1..Len(ultimo.intentos) : ultimo.intentos[j].resultado = "Rejected"
    /\ \E j \in 1..Len(ultimo.intentos) : ultimo.intentos[j].resultado = "Unreachable"
    /\ \A i \in 1..Len(buffers_por_dispositivo) :
            buffers_por_dispositivo[i].buffer = <<>>

\* C2: in a flush cycle a post is attempted for every device whose buffer
\* is non-empty at the start of the cycle, whatever happens with the other
\* devices: nothing aborts the cycle or skips the remaining devices.
C2_EveryDeviceDispatched ==
    [][(ultimo'.op = "tick" /\ ultimo'.flush) =>
          Intentados(ultimo') = ConDatos(buffers_por_dispositivo)]_vars

\* C3: a tick flushes if and only if the minute it reads is 0 or 30: at
\* such a minute it posts when there is a record to post, at any other
\* minute it posts nothing and leaves the dict as it was.
C3_SchedulerGating ==
    [][ultimo'.op = "tick" =>
          /\ ultimo'.flush <=> ultimo'.minuto \in {0, 30}
          /\ ultimo'.minuto \notin {0, 30} =>
                /\ ultimo'.intentos = <<>>
                /\ ultimo'.excepcion = "none"
                /\ buffers_por_dispositivo' = buffers_por_dispositivo
          /\ (ultimo'.minuto \in {0, 30} /\ ConDatos(buffers_por_dispositivo) # {}) =>
                ultimo'.intentos # <<>>]_vars

\* A tick at minute 15 with records waiting: nothing posted, records kept.
C3_Witness ==
    /\ ultimo.op = "tick"
    /\ ultimo.minuto = 15
    /\ ~ultimo.flush
    /\ ultimo.intentos = <<>>
    /\ ConDatos(buffers_por_dispositivo) # {}

\* The minutes 0 and 30 of the hours SpecReloj covers, as the instant they
\* begin at; the node starts during the first one.
Ventanas ==
    {(h * 3600) + (m * 60) : h \in 0..MaxHoras, m \in {0, 30}} \ {0}

\* The flushes fired during the minute beginning at w.
EnVentana(w) == {i \in 1..Len(flushes) : flushes[i] \in w..(w + 59)}

\* C4: in every clock hour the flush fires exactly once during minute 0 and
\* exactly once during minute 30, whatever the phase of the timer and the
\* latency of the ticks: never twice in such a minute, and once when the
\* minute is over.
C4_ExactlyOncePerTriggerMinute ==
    \A w \in Ventanas :
        /\ Cardinality(EnVentana(w)) <= 1
        /\ (spin /\ reloj >= w + 60) => Cardinality(EnVentana(w)) = 1

\* C5: listener_callback on a record of device A changes the buffer of no
\* other device, and A's buffer grows by exactly that record.
C5_BufferIsolation ==
    [][ultimo'.op = "ingest" =>
          LET data == ultimo'.msg.data
              A == data.id_dispositivo
          IN /\ \A B \in Claves(buffers_por_dispositivo)
                         \cup Claves(buffers_por_dispositivo') :
                    B # A => BufferDe(buffers_por_dispositivo', B)
                             = BufferDe(buffers_por_dispositivo, B)
             /\ ultimo'.msg \in MensajesValidos =>
                    BufferDe(buffers_por_dispositivo', A)
                    = Append(BufferDe(buffers_por_dispositivo, A),
                             [data EXCEPT !.n = recibidos'])]_vars

\* A record of D1 has just been appended to D1's records while D2 has some.
C5_Witness ==
    /\ ultimo.op = "ingest"
    /\ ultimo.msg \in MensajesValidos
    /\ ultimo.msg.data.id_dispositivo = D1
    /\ Len(BufferDe(buffers_por_dispositivo, D1)) >= 2
    /\ BufferDe(buffers_por_dispositivo, D2) # <<>>

\* C6: on a payload that is no JSON, no object or has no usable device id,
\* listener_callback raises nothing and leaves the dict unchanged, and the
\* node goes on: a valid record that arrives is appended.
C6_IngestFailsSoftly ==
    [][ultimo'.op = "ingest" =>
          /\ ultimo'.excepcion = "none"
          /\ spin'
          /\ ultimo'.msg \in MensajesInvalidos =>
                buffers_por_dispositivo' = buffers_por_dispositivo
          /\ ultimo'.msg \in MensajesValidos =>
                Len(BufferDe(buffers_por_dispositivo', ultimo'.msg.data.id_dispositivo))
                = Len(BufferDe(buffers_por_dispositivo, ultimo'.msg.data.id_dispositivo)) + 1
      ]_vars

\* Two messages arrived and nothing was flushed: the first was discarded,
\* the second, valid, is the only record stored.
C6_Witness ==
    /\ ultimo.op = "ingest"
    /\ ultimo.msg \in MensajesValidos
    /\ recibidos = 2
    /\ despachados = {}
    /\ Cardinality(Almacenados) = 1
    /\ spin

\* C7: every record stored under key d carries the device id d.
C7_BufferSharesDeviceId ==
    \A i \in 1..Len(buffers_por_dispositivo) :
        \A j \in 1..Len(buffers_por_dispositivo[i].buffer) :
            buffers_por_dispositivo[i].buffer[j].id_dispositivo
            = buffers_por_dispositivo[i].id

\* Both devices have records, one of them two.
C7_Witness ==
    /\ Len(BufferDe(buffers_por_dispositivo, D1)) = 2
    /\ Len(BufferDe(buffers_por_dispositivo, D2)) = 1

\* C8: in a flush cycle no summary is computed or posted for a device whose
\* buffer is empty: every post is for a device that had records, and the
\* reducer is not reached with an empty buffer (its buffer[-1] would raise
\* IndexError).
C8_EmptyBufferSkipped ==
    [][ultimo'.op = "tick" =>
          /\ Intentados(ultimo') \subseteq ConDatos(buffers_por_dispositivo)
          /\ ultimo'.excepcion # "IndexError"]_vars

\* A completed flush over two known devices with a single post: the other
\* device had received nothing since its last flush.
C8_Witness ==
    /\ FlushCompleto
    /\ Len(buffers_por_dispositivo) = 2
    /\ Len(ultimo.intentos) = 1
    /\ \E x \in despachados : x.id # ultimo.intentos[1].id

\* C9: in one cycle at most one post is made per device, and no summary is
\* computed from a record that was in the summary of an earlier cycle, so a
\* summary whose post was rejected or unreachable is not sent again.
C9_NoRetry ==
    [][ultimo'.op = "tick" =>
          /\ \A j, k \in 1..Len(ultimo'.intentos) :
                ultimo'.intentos[j].id = ultimo'.intentos[k].id => j = k
          /\ \A j \in 1..Len(ultimo'.intentos) :
                \A x \in despachados : x.n \notin ultimo'.intentos[j].fuente]_vars

\* A device whose summary was not delivered in an earlier cycle gets, in
\* this cycle, a summary of other records.
C9_Witness ==
    /\ FlushCompleto
    /\ \E j \in 1..Len(ultimo.intentos) :
          \E x \in despachados :
             /\ x.resultado \in {"Rejected", "Unreachable"}
             /\ x.id = ultimo.intentos[j].id
             /\ x.n \notin ultimo.intentos[j].fuente

\* C10: a response with status 201 is Delivered, with any other status
\* Rejected with that status, a transport failure Unreachable; and in all
\* three cases no exception leaves the flush.
C10_OutcomesAndNoPropagation ==
    ultimo.op = "tick" =>
        /\ \A j \in 1..Len(ultimo.intentos) :
              LET a == ultimo.intentos[j]
              IN /\ (a.respuesta.tipo = "respuesta" /\ a.respuesta.codigo = 201)
                        => a.resultado = "Delivered"
                 /\ (a.respuesta.tipo = "respuesta" /\ a.respuesta.codigo # 201)
                        => (a.resultado = "Rejected" /\ a.codigo = a.respuesta.codigo)
                 /\ a.respuesta.tipo # "respuesta" => a.resultado = "Unreachable"
        /\ ultimo.excepcion = "none"


\* ------------------------------------------------------------- reduction
\* The values of a field that are present and are JSON numbers.
RECURSIVE Numericos(_, _)
Numericos(buffer, campo) ==
    IF buffer = <<>> THEN <<>>
    ELSE LET v == Head(buffer)[campo]
             resto == Numericos(Tail(buffer), campo)
         IN IF v.t \in {"num", "bigint"} THEN <<v>> \o resto ELSE resto

\* x is the lower (upper) middle element of vs by rank.
EsMedioInferior(vs, x) ==
    /\ \E i \in 1..Len(vs) : vs[i] = x
    /\ Cardinality({i \in 1..Len(vs) : Valor(vs[i]) < Valor(x)}) <= (Len(vs) - 1) \div 2
    /\ Cardinality({i \in 1..Len(vs) : Valor(vs[i]) > Valor(x)}) <= Len(vs) \div 2

EsMedioSuperior(vs, x) ==
    /\ \E i \in 1..Len(vs) : vs[i] = x
    /\ Cardinality({i \in 1..Len(vs) : Valor(vs[i]) < Valor(x)}) <= Len(vs) \div 2
    /\ Cardinality({i \in 1..Len(vs) : Valor(vs[i]) > Valor(x)}) <= (Len(vs) - 1) \div 2

\* r is the statistical median of the numbers vs rounded to 2 decimals: a
\* multiple of 1/100 at most half of 1/100 from the mean of the two middle
\* elements (which are one element for an odd count).  A median beyond the
\* float range is a number nevertheless.
EsMedianaRedondeada(vs, r) ==
    \E lo, hi \in {vs[i] : i \in 1..Len(vs)} :
        /\ EsMedioInferior(vs, lo)
        /\ EsMedioSuperior(vs, hi)
        /\ IF lo.t = "bigint" \/ hi.t = "bigint"
           THEN r.t = "bigint"
           ELSE /\ r.t = "num"
                /\ r.n % (Unidad \div 100) = 0
                /\ (2 * r.n) - (lo.n + hi.n) <= Unidad \div 100
                /\ (lo.n + hi.n) - (2 * r.n) <= Unidad \div 100

\* C11: for every non-empty buffer and each numeric field with a present
\* numeric value, the summary's field is the statistical median of exactly
\* the present numeric values of the field, rounded to 2 decimals.
C11_MedianOfPresentNumeric ==
    [][(ultimo'.op = "tick" /\ ultimo'.flush) =>
          \A j \in 1..Len(ultimo'.intentos) :
             LET a == ultimo'.intentos[j]
                 buffer == BufferDe(buffers_por_dispositivo, a.id)
             IN \A campo \in CamposNumericos :
                   Numericos(buffer, campo) # <<>> =>
                       EsMedianaRedondeada(Numericos(buffer, campo), a.datos[campo])]_vars


\* C12: in every summary a flush posts, a numeric field is null if and only
\* if no record of the device's buffer carries a present numeric value for
\* that field: a missing or non-numeric value is never counted as a number,
\* and the reducer never fails on one.
C12_AbsentIffNoNumeric ==
    [][(ultimo'.op = "tick" /\ ultimo'.flush) =>
          \A j \in 1..Len(ultimo'.intentos) :
             LET a == ultimo'.intentos[j]
                 buffer == BufferDe(buffers_por_dispositivo, a.id)
             IN \A campo \in CamposNumericos :
                   (a.datos[campo] = JNull) <=> (Numericos(buffer, campo) = <<>>)]_vars


\* C13 (as stated): the domain of every posted summary is the domain of the
\* last record of the buffer, in arrival order, that carries a domain tag,
\* and the sentinel only when no record of the buffer carries one.
C13_DomainOfLastTagged ==
    (ultimo.op = "tick" /\ ultimo.flush) =>
        \A j \in 1..Len(ultimo.intentos) :
           LET a == ultimo.intentos[j]
           IN a.datos.dominio = UltimoConDominio(a.buffer)

\* C13 (amended): the domain of every posted summary is the dominio value of
\* the most recently appended record of the buffer when that record has the
\* key, null included, and the sentinel "desconocido" when it has not, even
\* if an earlier record of the buffer carries a domain.
C13_DomainOfLastRecord ==
    (ultimo.op = "tick" /\ ultimo.flush) =>
        \A j \in 1..Len(ultimo.intentos) :
           LET a == ultimo.intentos[j]
               reciente == a.buffer[Len(a.buffer)]
           IN /\ a.buffer # <<>>
              /\ reciente.dominio.t # "ausente" => a.datos.dominio = reciente.dominio
              /\ reciente.dominio.t = "ausente" => a.datos.dominio = JStr("desconocido")

\* A summary was posted from a buffer whose most recent record has no domain
\* while an earlier record has one: it carries the sentinel.
C13_Witness ==
    /\ ultimo.op = "tick" /\ ultimo.flush
    /\ \E j \in 1..Len(ultimo.intentos) :
          LET a == ultimo.intentos[j]
          IN /\ Len(a.buffer) >= 2
             /\ a.buffer[Len(a.buffer)].dominio.t = "ausente"
             /\ \E i \in 1..(Len(a.buffer) - 1) : a.buffer[i].dominio.t = "str"
             /\ a.datos.dominio = JStr("desconocido")


\* The arrival numbers of the records of a buffer grow from head to tail.
EnOrdenDeLlegada(buffer) ==
    \A i, j \in 1..Len(buffer) : i < j => buffer[i].n < buffer[j].n

\* C18: a callback that is no flush changes a device's buffer only by
\* putting a valid record of that device at its end, the key being created
\* when the device was unknown; so every buffer holds its records in arrival
\* order, the newest last.
C18_AppendInArrivalOrder ==
    [][~(ultimo'.op = "tick" /\ ultimo'.flush) =>
          \A d \in Dispositivos :
             LET antes == BufferDe(buffers_por_dispositivo, d)
                 despues == BufferDe(buffers_por_dispositivo', d)
                 llega == /\ ultimo'.op = "ingest"
                          /\ ultimo'.msg \in MensajesValidos
                          /\ ultimo'.msg.data.id_dispositivo = d
             IN /\ llega => /\ d \in Claves(buffers_por_dispositivo')
                            /\ Len(despues) = Len(antes) + 1
                            /\ SubSeq(despues, 1, Len(antes)) = antes
                            /\ despues[Len(despues)].n = recibidos'
                            /\ [despues[Len(despues)] EXCEPT !.n = 0] = ultimo'.msg.data
                /\ ~llega => /\ despues = antes
                             /\ d \in Claves(buffers_por_dispositivo')
                                <=> d \in Claves(buffers_por_dispositivo)
                /\ EnOrdenDeLlegada(despues)]_vars

\* The third message is the first record of D2, whose key it creates, after
\* two records of D1 that are stored in the order they came.
C18_Witness ==
    /\ ultimo.op = "ingest"
    /\ ultimo.msg \in MensajesValidos
    /\ ultimo.msg.data.id_dispositivo = D2
    /\ despachados = {}
    /\ Claves(buffers_por_dispositivo) = {D1, D2}
    /\ Len(BufferDe(buffers_por_dispositivo, D2)) = 1
    /\ BufferDe(buffers_por_dispositivo, D2)[1].n = 3
    /\ Len(BufferDe(buffers_por_dispositivo, D1)) = 2
    /\ BufferDe(buffers_por_dispositivo, D1)[1].n = 1
    /\ BufferDe(buffers_por_dispositivo, D1)[2].n = 2


\* The arrival numbers of the records stored in the buffers.
NumerosAlmacenados(bufs) ==
    UNION { {bufs[i].buffer[j].n : j \in 1..Len(bufs[i].buffer)} : i \in 1..Len(bufs) }

\* The arrival numbers of the records the summaries of a tick were computed from.
NumerosResumidos(u) ==
    UNION { u.intentos[j].fuente : j \in 1..Len(u.intentos) }

\* C19: the records a callback removes from the buffers are exactly the
\* records the summaries it posted were computed from, and a flush cycle
\* computes a summary from every record stored when it fires: so every
\* stored record enters exactly one summary, that of the first flush after
\* its arrival, and leaves its buffer with it and in no other way.
C19_ClearedIsSummarized ==
    [][/\ NumerosAlmacenados(buffers_por_dispositivo)
            \ NumerosAlmacenados(buffers_por_dispositivo')
          = IF ultimo'.op = "tick" THEN NumerosResumidos(ultimo') ELSE {}
       /\ (ultimo'.op = "tick" /\ ultimo'.flush) =>
             NumerosResumidos(ultimo') = NumerosAlmacenados(buffers_por_dispositivo)
      ]_vars


\* A flush cycle is in progress: publicar_datos is in its for loop.
EnFlush == spin /\ pc.op = "flush"

\* C14: while a flush cycle is in progress, a post to the sink pending or
\* not, a record that has arrived can be ingested at once: listener_callback
\* can run on it without the flush finishing first.
C14_IngestNeverBlocks ==
    (EnFlush /\ cola # <<>>) => ENABLED Atender


\* C15: while publicar_datos is in its for loop no ingest runs: no message
\* is taken from the subscription, no key is created and no record is
\* appended; the dict changes only by the loop replacing the buffer of the
\* entry it is at.
C15_IngestAndFlushSerialized ==
    [][pc.op = "flush" =>
          /\ recibidos' = recibidos
          /\ Len(cola') >= Len(cola)
          /\ Len(buffers_por_dispositivo') = Len(buffers_por_dispositivo)
          /\ \A i \in 1..Len(buffers_por_dispositivo) :
                \/ buffers_por_dispositivo'[i] = buffers_por_dispositivo[i]
                \/ /\ i = pc.i
                   /\ pc.pendiente
                   /\ buffers_por_dispositivo'[i]
                      = [id |-> buffers_por_dispositivo[i].id, buffer |-> <<>>]]_vars

\* The loop has posted the summary of the first device and replaced its
\* buffer, and goes on, while a message waits in the subscription.
C15_Witness ==
    /\ EnFlush
    /\ pc.i = 2
    /\ Len(ultimo.intentos) = 1
    /\ buffers_por_dispositivo[1].buffer = <<>>
    /\ cola # <<>>

\* C16: the process keeps running whatever messages arrive and whatever the
\* sink answers, and every flush cycle that starts comes back to idle.
C16_SchedulerNeverHalts ==
    ([]spin) /\ ((pc.op = "flush") ~> (pc.op = "idle"))

====
